---------------------------- MODULE Spec2Model ----------------------------
(***************************************************************************)
(* A model of the 6502 execution core of eNES (src/src/cpu.rs): the        *)
(* register file, the status flags, the addressing-mode resolver, the      *)
(* stack discipline and the fetch-decode-execute loop run_with_callback.   *)
(*                                                                         *)
(* A processor is a record c with the fields of struct CPU plus            *)
(*   memory : the bus contents, a function from the addresses written so   *)
(*            far to bytes (every other cell reads 0),                     *)
(*   panic  : "none", or the reason the running call panicked.             *)
(* Every instruction handler is an operator from such a record to the      *)
(* record after the handler.                                               *)
(***************************************************************************)
EXTENDS Integers, Sequences, FiniteSets, TLC

VARIABLES
    register_a,       \* CPU.register_a
    register_x,       \* CPU.register_x
    register_y,       \* CPU.register_y
    status,           \* CPU.status
    program_counter,  \* CPU.program_counter
    stack_pointer,    \* CPU.stack_pointer
    memory,           \* the contents of CPU.bus
    phase,            \* where the embedder / the loop stands
    panic,            \* "none", or why the call panicked
    overflow_checks,  \* the build profile: TRUE panics on integer overflow, FALSE wraps
    program,          \* the byte sequence handed to load
    retired,          \* instructions whose body has been executed by the running loop
    callbacks,        \* invocations of the callback so far
    observed,         \* program counter seen by the last callback invocation
    before,           \* the processor as it was when the last opcode was fetched
    pushed,           \* value handed to the last stack push
    returned,         \* value returned by the last stack pop
    accessed          \* addresses the stack operations have read or written

vars == <<register_a, register_x, register_y, status, program_counter,
          stack_pointer, memory, phase, panic, overflow_checks, program,
          retired, callbacks, observed, before, pushed, returned,
          accessed>>

(***************************************************************************)
(* Bounds of the model.                                                    *)
(***************************************************************************)
MaxSteps == 30

(***************************************************************************)
(* Program constants.                                                      *)
(***************************************************************************)
STACK == 256
STACK_RESET == 253

CARRY == 1
ZERO == 2
INTERRUPT == 4
DECIMAL == 8
BREAK == 16
BREAK2 == 32
OVERFLOW == 64
NEGATIVE == 128

ORIGIN == 1536
RESET_VECTOR == 65532

Byte == 0..255
Word == 0..65535

(***************************************************************************)
(* Bitwise operations on bytes.                                            *)
(***************************************************************************)
RECURSIVE BitAndN(_, _, _)
BitAndN(a, b, n) ==
    IF n = 0 THEN 0
    ELSE ((a % 2) * (b % 2)) + (2 * BitAndN(a \div 2, b \div 2, n - 1))

RECURSIVE BitXorN(_, _, _)
BitXorN(a, b, n) ==
    IF n = 0 THEN 0
    ELSE (((a % 2) + (b % 2)) % 2) + (2 * BitXorN(a \div 2, b \div 2, n - 1))

BitAnd(a, b) == BitAndN(a, b, 8)
BitXor(a, b) == BitXorN(a, b, 8)
BitOr(a, b) == a + b - BitAnd(a, b)
BitNot(a) == 255 - a

\* u8::wrapping_add / wrapping_sub, u16::wrapping_add
WrappingAdd8(a, b) == (a + b) % 256
WrappingSub8(a, b) == (a - b + 256) % 256
WrappingAdd16(a, b) == (a + b) % 65536

\* `x as i8`: the byte read as a two's-complement number
AsI8(b) == IF b >= 128 THEN b - 256 ELSE b
\* `x as u16` of an i8 (sign extension), `x as u8` of an i8
I8AsU16(i) == (i + 65536) % 65536
I8AsU8(i) == (i + 256) % 256

(***************************************************************************)
(* The memory contract: a flat byte-addressable 16-bit address space.      *)
(***************************************************************************)
MemRead(c, addr) ==
    IF addr \in DOMAIN c.memory THEN c.memory[addr] ELSE 0

MemWrite(c, addr, data) ==
    IF addr \in DOMAIN c.memory
    THEN [c EXCEPT !.memory[addr] = data]
    ELSE [c EXCEPT !.memory = (addr :> data) @@ c.memory]

Panic(c, why) == [c EXCEPT !.panic = why]

\* An unchecked `+` on u16: panics when overflow checks are compiled in.
Overflows16(v) == overflow_checks /\ v > 65535

\* Mem::mem_read_u16: pos + 1 is an unchecked addition.
MemReadU16Panics(c, pos) == Overflows16(pos + 1)

MemReadU16(c, pos) ==
    LET lo == MemRead(c, pos)
        hi == MemRead(c, (pos + 1) % 65536)
    IN  (hi * 256) + lo

MemWriteU16Panics(c, pos) == Overflows16(pos + 1)

MemWriteU16(c, pos, data) ==
    LET hi == data \div 256
        lo == data % 256
    IN  MemWrite(MemWrite(c, pos, lo), (pos + 1) % 65536, hi)

(***************************************************************************)
(* The instruction metadata table (crate::opcodes): opcode -> mode, len.   *)
(***************************************************************************)
ImmediateOps == {\hA9, \hA2, \hA0, \hE0, \h69, \hE9, \h29, \hC9}
ZeroPageOps == {\hA5, \hA6, \hA4, \h85, \h86, \hE4, \h65, \hE5, \h25, \hC6,
                \h24, \hC5, \h46, \hE6}
ZeroPageXOps == {\hB5, \hB4, \h95, \h75, \hF5, \h35, \hD6, \hD5, \h56, \hF6}
ZeroPageYOps == {\hB6, \h96}
AbsoluteOps == {\hAD, \hAE, \hAC, \h8D, \h8E, \hEC, \h6D, \hED, \h2D, \hCE,
                \h2C, \hCD, \h4E, \hEE}
AbsoluteXOps == {\hBD, \hBC, \h9D, \h7D, \hFD, \h3D, \hDE, \hDD, \h5E, \hFE}
AbsoluteYOps == {\hB9, \hBE, \h99, \h79, \hF9, \h39, \hD9}
IndirectXOps == {\hA1, \h81, \h61, \hE1, \h21, \hC1}
IndirectYOps == {\hB1, \h91, \h71, \hF1, \h31, \hD1}
BranchOps == {\hD0, \hF0, \h70, \h50, \h10, \h30, \hB0, \h90}
JumpOps == {\h4C, \h20}
ImpliedOps == {\h60, \hCA, \hAA, \h8A, \hE8, \h00, \hD8, \h58, \hB8, \h18,
               \h38, \h78, \hF8, \h4A, \hEA}

OPCODES_MAP ==
    ImmediateOps \cup ZeroPageOps \cup ZeroPageXOps \cup ZeroPageYOps
    \cup AbsoluteOps \cup AbsoluteXOps \cup AbsoluteYOps \cup IndirectXOps
    \cup IndirectYOps \cup BranchOps \cup JumpOps \cup ImpliedOps

OpMode(code) ==
    CASE code \in ImmediateOps -> "Immediate"
      [] code \in ZeroPageOps -> "ZeroPage"
      [] code \in ZeroPageXOps -> "ZeroPage_X"
      [] code \in ZeroPageYOps -> "ZeroPage_Y"
      [] code \in AbsoluteOps -> "Absolute"
      [] code \in AbsoluteXOps -> "Absolute_X"
      [] code \in AbsoluteYOps -> "Absolute_Y"
      [] code \in IndirectXOps -> "Indirect_X"
      [] code \in IndirectYOps -> "Indirect_Y"
      [] OTHER -> "NoneAddressing"

OpLen(code) ==
    CASE code \in AbsoluteOps \cup AbsoluteXOps \cup AbsoluteYOps \cup JumpOps -> 3
      [] code \in ImpliedOps -> 1
      [] OTHER -> 2

(***************************************************************************)
(* CPU::get_operand_address.  AddressPanic is the reason the call panics   *)
(* ("none" when it returns), GetOperandAddress the address it returns.     *)
(***************************************************************************)
AddressPanic(c, mode) ==
    CASE mode = "NoneAddressing" -> "none_addressing"
      [] mode \in {"Absolute", "Absolute_X", "Absolute_Y"}
            /\ MemReadU16Panics(c, c.program_counter) -> "overflow"
      [] OTHER -> "none"

\* mutant: the zero-page index addition carries into the high byte
GetOperandAddress_ZeroPageCarries(c, mode) ==
    CASE mode = "Immediate" -> c.program_counter
      [] mode = "ZeroPage" -> MemRead(c, c.program_counter)
      [] mode = "Absolute" -> MemReadU16(c, c.program_counter)
      [] mode = "ZeroPage_X" ->
            LET pos == MemRead(c, c.program_counter)
            IN  pos + c.register_x
      [] mode = "ZeroPage_Y" ->
            LET pos == MemRead(c, c.program_counter)
            IN  pos + c.register_y
      [] mode = "Absolute_X" ->
            LET base == MemReadU16(c, c.program_counter)
            IN  WrappingAdd16(base, c.register_x)
      [] mode = "Absolute_Y" ->
            LET base == MemReadU16(c, c.program_counter)
            IN  WrappingAdd16(base, c.register_y)
      [] mode = "Indirect_X" ->
            LET base == MemRead(c, c.program_counter)
                ptr == WrappingAdd8(base, c.register_x)
                lo == MemRead(c, ptr)
                hi == MemRead(c, WrappingAdd8(ptr, 1))
            IN  (hi * 256) + lo
      [] mode = "Indirect_Y" ->
            LET base == MemRead(c, c.program_counter)
                lo == MemRead(c, base)
                hi == MemRead(c, WrappingAdd8(base, 1))
                deref_base == hi * 256 + lo
            IN  WrappingAdd16(deref_base, c.register_y)

\* mutant: the high pointer byte is read from the cell after the pointer,
\* at 0x0100 when the pointer is 0xFF
GetOperandAddress_PointerLeavesZeroPage(c, mode) ==
    CASE mode = "Immediate" -> c.program_counter
      [] mode = "ZeroPage" -> MemRead(c, c.program_counter)
      [] mode = "Absolute" -> MemReadU16(c, c.program_counter)
      [] mode = "ZeroPage_X" ->
            LET pos == MemRead(c, c.program_counter)
            IN  WrappingAdd8(pos, c.register_x)
      [] mode = "ZeroPage_Y" ->
            LET pos == MemRead(c, c.program_counter)
            IN  WrappingAdd8(pos, c.register_y)
      [] mode = "Absolute_X" ->
            LET base == MemReadU16(c, c.program_counter)
            IN  WrappingAdd16(base, c.register_x)
      [] mode = "Absolute_Y" ->
            LET base == MemReadU16(c, c.program_counter)
            IN  WrappingAdd16(base, c.register_y)
      [] mode = "Indirect_X" ->
            LET base == MemRead(c, c.program_counter)
                ptr == WrappingAdd8(base, c.register_x)
                lo == MemRead(c, ptr)
                hi == MemRead(c, ptr + 1)
            IN  (hi * 256) + lo
      [] mode = "Indirect_Y" ->
            LET base == MemRead(c, c.program_counter)
                lo == MemRead(c, base)
                hi == MemRead(c, base + 1)
                deref_base == hi * 256 + lo
            IN  WrappingAdd16(deref_base, c.register_y)

GetOperandAddress(c, mode) ==
    CASE mode = "Immediate" -> c.program_counter
      [] mode = "ZeroPage" -> MemRead(c, c.program_counter)
      [] mode = "Absolute" -> MemReadU16(c, c.program_counter)
      [] mode = "ZeroPage_X" ->
            LET pos == MemRead(c, c.program_counter)
            IN  WrappingAdd8(pos, c.register_x)
      [] mode = "ZeroPage_Y" ->
            LET pos == MemRead(c, c.program_counter)
            IN  WrappingAdd8(pos, c.register_y)
      [] mode = "Absolute_X" ->
            LET base == MemReadU16(c, c.program_counter)
            IN  WrappingAdd16(base, c.register_x)
      [] mode = "Absolute_Y" ->
            LET base == MemReadU16(c, c.program_counter)
            IN  WrappingAdd16(base, c.register_y)
      [] mode = "Indirect_X" ->
            LET base == MemRead(c, c.program_counter)
                ptr == WrappingAdd8(base, c.register_x)
                lo == MemRead(c, ptr)
                hi == MemRead(c, WrappingAdd8(ptr, 1))
            IN  (hi * 256) + lo
      [] mode = "Indirect_Y" ->
            LET base == MemRead(c, c.program_counter)
                lo == MemRead(c, base)
                hi == MemRead(c, WrappingAdd8(base, 1))
                deref_base == hi * 256 + lo
            IN  WrappingAdd16(deref_base, c.register_y)

(***************************************************************************)
(* Stack logic.  A pop returns the processor after the pop and the byte.   *)
(***************************************************************************)
StackAddr(sp) == STACK + sp

\* mutant: the pop reads the cell before it increments the pointer
StackPop_ReadsBeforeIncrement(c) ==
    LET c1 == [c EXCEPT !.stack_pointer = WrappingAdd8(c.stack_pointer, 1)]
    IN  [cpu |-> c1, data |-> MemRead(c, StackAddr(c.stack_pointer))]

StackPop(c) ==
    LET c1 == [c EXCEPT !.stack_pointer = WrappingAdd8(c.stack_pointer, 1)]
    IN  [cpu |-> c1, data |-> MemRead(c1, StackAddr(c1.stack_pointer))]

StackPush(c, data) ==
    LET c1 == MemWrite(c, StackAddr(c.stack_pointer), data)
    IN  [c1 EXCEPT !.stack_pointer = WrappingSub8(c.stack_pointer, 1)]

StackPushU16(c, data) ==
    LET hi == data \div 256
        lo == data % 256
    IN  StackPush(StackPush(c, hi), lo)

StackPopU16(c) ==
    LET p1 == StackPop(c)
        p2 == StackPop(p1.cpu)
        lo == p1.data
        hi == p2.data
    IN  [cpu |-> p2.cpu, data |-> (hi * 256) + lo]

(***************************************************************************)
(* CPU::new, CPU::reset, CPU::load.                                        *)
(***************************************************************************)
New ==
    [register_a |-> 0, register_x |-> 0, register_y |-> 0,
     stack_pointer |-> STACK_RESET, program_counter |-> 0, status |-> 0,
     memory |-> <<>>, panic |-> "none"]

\* mutant: the program counter is loaded from the IRQ vector 0xFFFE
ResetCpu_FromIrqVector(c) ==
    [c EXCEPT !.register_a = 0,
              !.register_x = 0,
              !.register_y = 0,
              !.status = 0,
              !.stack_pointer = STACK_RESET,
              !.program_counter = MemReadU16(c, RESET_VECTOR + 2)]

\* mutant: the stack pointer is decremented by 3, as a hardware reset does
ResetCpu_DecrementsStackPointer(c) ==
    [c EXCEPT !.register_a = 0,
              !.register_x = 0,
              !.register_y = 0,
              !.status = 0,
              !.stack_pointer = WrappingSub8(c.stack_pointer, 3),
              !.program_counter = MemReadU16(c, RESET_VECTOR)]

ResetCpu(c) ==
    [c EXCEPT !.register_a = 0,
              !.register_x = 0,
              !.register_y = 0,
              !.status = 0,
              !.stack_pointer = STACK_RESET,
              !.program_counter = MemReadU16(c, RESET_VECTOR)]

\* `program.len() as u16`, and the iterations the loop completes: the
\* unchecked 0x0600 + i panics at the first i past 0xFFFF - 0x0600 when
\* overflow checks are compiled in.
LoadCount(prog) == Len(prog) % 65536
LoadPanics(prog) == Overflows16(ORIGIN + LoadCount(prog) - 1)
LoadWritten(prog) ==
    IF LoadPanics(prog) THEN 65536 - ORIGIN ELSE LoadCount(prog)

\* the cells the loop writes: 0x0600 + i for i < n, wrapping past 0xFFFF
LoadCells(n) ==
    IF ORIGIN + n <= 65536 THEN ORIGIN..(ORIGIN + n - 1)
    ELSE (ORIGIN..65535) \cup (0..(ORIGIN + n - 65536 - 1))

LoadCpu(c, prog) ==
    LET n == LoadWritten(prog)
        c1 == [c EXCEPT !.memory =
                [x \in (DOMAIN c.memory) \cup LoadCells(n) |->
                    IF ((x - ORIGIN + 65536) % 65536) < n
                    THEN prog[((x - ORIGIN + 65536) % 65536) + 1]
                    ELSE c.memory[x]]]
    IN  IF LoadPanics(prog) THEN Panic(c1, "overflow")
        ELSE MemWriteU16(c1, RESET_VECTOR, ORIGIN)

(***************************************************************************)
(* ALU and flag update logic.                                              *)
(***************************************************************************)
\* mutant: Negative is set only for results above 0x80
UpdateZeroAndNegativeFlags_StrictNegative(c, result) ==
    LET s1 == IF result = 0
              THEN BitOr(c.status, ZERO)
              ELSE BitAnd(c.status, BitNot(ZERO))
        s2 == IF result > 128
              THEN BitOr(s1, NEGATIVE)
              ELSE BitAnd(s1, BitNot(NEGATIVE))
    IN  [c EXCEPT !.status = s2]

UpdateZeroAndNegativeFlags(c, result) ==
    LET s1 == IF result = 0
              THEN BitOr(c.status, ZERO)
              ELSE BitAnd(c.status, BitNot(ZERO))
        s2 == IF BitAnd(result, NEGATIVE) # 0
              THEN BitOr(s1, NEGATIVE)
              ELSE BitAnd(s1, BitNot(NEGATIVE))
    IN  [c EXCEPT !.status = s2]

SetRegisterA(c, value) ==
    UpdateZeroAndNegativeFlags([c EXCEPT !.register_a = value], value)

\* mutant: the Overflow flag is set from the carry out of bit 7
AddToRegisterA_CarryAsOverflow(c, data) ==
    LET sum == c.register_a + data
               + (IF BitAnd(c.status, CARRY) # 0 THEN 1 ELSE 0)
        carry == sum > 255
        s1 == IF carry
              THEN BitOr(c.status, CARRY)
              ELSE BitAnd(c.status, BitNot(CARRY))
        result == sum % 256
        s2 == IF carry
              THEN BitOr(s1, OVERFLOW)
              ELSE BitAnd(s1, BitNot(OVERFLOW))
    IN  SetRegisterA([c EXCEPT !.status = s2], result)

\* mutant: Overflow is computed after the accumulator has been updated
AddToRegisterA_OverflowAfterUpdate(c, data) ==
    LET sum == c.register_a + data
               + (IF BitAnd(c.status, CARRY) # 0 THEN 1 ELSE 0)
        carry == sum > 255
        s1 == IF carry
              THEN BitOr(c.status, CARRY)
              ELSE BitAnd(c.status, BitNot(CARRY))
        result == sum % 256
        c1 == SetRegisterA([c EXCEPT !.status = s1], result)
        s2 == IF BitAnd(BitAnd(BitXor(data, result),
                               BitXor(result, c1.register_a)), 128) # 0
              THEN BitOr(c1.status, OVERFLOW)
              ELSE BitAnd(c1.status, BitNot(OVERFLOW))
    IN  [c1 EXCEPT !.status = s2]

AddToRegisterA(c, data) ==
    LET sum == c.register_a + data
               + (IF BitAnd(c.status, CARRY) # 0 THEN 1 ELSE 0)
        carry == sum > 255
        s1 == IF carry
              THEN BitOr(c.status, CARRY)
              ELSE BitAnd(c.status, BitNot(CARRY))
        result == sum % 256
        s2 == IF BitAnd(BitAnd(BitXor(data, result),
                               BitXor(result, c.register_a)), 128) # 0
              THEN BitOr(s1, OVERFLOW)
              ELSE BitAnd(s1, BitNot(OVERFLOW))
    IN  SetRegisterA([c EXCEPT !.status = s2], result)

\* mutant: Carry is set only when the operand is strictly below the register
Compare_StrictCarry(c, mode, compare_with) ==
    IF AddressPanic(c, mode) # "none" THEN Panic(c, AddressPanic(c, mode))
    ELSE
    LET addr == GetOperandAddress(c, mode)
        data == MemRead(c, addr)
        s1 == IF data < compare_with
              THEN BitOr(c.status, CARRY)
              ELSE BitAnd(c.status, BitNot(CARRY))
    IN  UpdateZeroAndNegativeFlags([c EXCEPT !.status = s1],
                                   WrappingSub8(compare_with, data))

Compare(c, mode, compare_with) ==
    IF AddressPanic(c, mode) # "none" THEN Panic(c, AddressPanic(c, mode))
    ELSE
    LET addr == GetOperandAddress(c, mode)
        data == MemRead(c, addr)
        s1 == IF data <= compare_with
              THEN BitOr(c.status, CARRY)
              ELSE BitAnd(c.status, BitNot(CARRY))
    IN  UpdateZeroAndNegativeFlags([c EXCEPT !.status = s1],
                                   WrappingSub8(compare_with, data))

\* mutant: the offset is added to the address of the offset byte itself
Branch_FromOffsetByte(c, condition) ==
    IF condition
    THEN LET jump == AsI8(MemRead(c, c.program_counter))
             jump_addr == WrappingAdd16(c.program_counter, I8AsU16(jump))
         IN  [c EXCEPT !.program_counter = jump_addr]
    ELSE c

Branch(c, condition) ==
    IF condition
    THEN LET jump == AsI8(MemRead(c, c.program_counter))
             jump_addr == WrappingAdd16(WrappingAdd16(c.program_counter, 1),
                                        I8AsU16(jump))
         IN  [c EXCEPT !.program_counter = jump_addr]
    ELSE c

Lda(c, mode) ==
    IF AddressPanic(c, mode) # "none" THEN Panic(c, AddressPanic(c, mode))
    ELSE LET addr == GetOperandAddress(c, mode)
             value == MemRead(c, addr)
         IN  SetRegisterA(c, value)

Ldx(c, mode) ==
    IF AddressPanic(c, mode) # "none" THEN Panic(c, AddressPanic(c, mode))
    ELSE LET addr == GetOperandAddress(c, mode)
             data == MemRead(c, addr)
         IN  UpdateZeroAndNegativeFlags([c EXCEPT !.register_x = data], data)

Ldy(c, mode) ==
    IF AddressPanic(c, mode) # "none" THEN Panic(c, AddressPanic(c, mode))
    ELSE LET addr == GetOperandAddress(c, mode)
             data == MemRead(c, addr)
         IN  UpdateZeroAndNegativeFlags([c EXCEPT !.register_y = data], data)

Adc(c, mode) ==
    IF AddressPanic(c, mode) # "none" THEN Panic(c, AddressPanic(c, mode))
    ELSE LET addr == GetOperandAddress(c, mode)
             value == MemRead(c, addr)
         IN  AddToRegisterA(c, value)

\* i8::wrapping_neg and i8::wrapping_sub
WrappingNegI8(i) == IF i = -128 THEN -128 ELSE -i
WrappingSubI8(i, j) == ((i - j + 128 + 256) % 256) - 128

\* mutant: the operand is negated but 1 is not subtracted
Sbc_NegatesOnly(c, mode) ==
    IF AddressPanic(c, mode) # "none" THEN Panic(c, AddressPanic(c, mode))
    ELSE LET addr == GetOperandAddress(c, mode)
             data == MemRead(c, addr)
         IN  AddToRegisterA(c, I8AsU8(WrappingNegI8(AsI8(data))))

Sbc(c, mode) ==
    IF AddressPanic(c, mode) # "none" THEN Panic(c, AddressPanic(c, mode))
    ELSE LET addr == GetOperandAddress(c, mode)
             data == MemRead(c, addr)
         IN  AddToRegisterA(c,
                I8AsU8(WrappingSubI8(WrappingNegI8(AsI8(data)), 1)))

Dex(c) ==
    LET v == WrappingSub8(c.register_x, 1)
    IN  UpdateZeroAndNegativeFlags([c EXCEPT !.register_x = v], v)

Dec(c, mode) ==
    IF AddressPanic(c, mode) # "none" THEN Panic(c, AddressPanic(c, mode))
    ELSE LET addr == GetOperandAddress(c, mode)
             data == WrappingSub8(MemRead(c, addr), 1)
         IN  UpdateZeroAndNegativeFlags(MemWrite(c, addr, data), data)

Sta(c, mode) ==
    IF AddressPanic(c, mode) # "none" THEN Panic(c, AddressPanic(c, mode))
    ELSE MemWrite(c, GetOperandAddress(c, mode), c.register_a)

Stx(c, mode) ==
    IF AddressPanic(c, mode) # "none" THEN Panic(c, AddressPanic(c, mode))
    ELSE MemWrite(c, GetOperandAddress(c, mode), c.register_x)

Tax(c) ==
    UpdateZeroAndNegativeFlags([c EXCEPT !.register_x = c.register_a],
                               c.register_a)

Txa(c) ==
    UpdateZeroAndNegativeFlags([c EXCEPT !.register_a = c.register_x],
                               c.register_x)

\* mutant: the increment saturates at 0xFF
Inx_Saturates(c) ==
    LET v == IF c.register_x = 255 THEN 255 ELSE c.register_x + 1
    IN  UpdateZeroAndNegativeFlags([c EXCEPT !.register_x = v], v)

Inx(c) ==
    LET v == WrappingAdd8(c.register_x, 1)
    IN  UpdateZeroAndNegativeFlags([c EXCEPT !.register_x = v], v)

Inc(c, mode) ==
    IF AddressPanic(c, mode) # "none" THEN Panic(c, AddressPanic(c, mode))
    ELSE LET addr == GetOperandAddress(c, mode)
             data == WrappingAdd8(MemRead(c, addr), 1)
         IN  UpdateZeroAndNegativeFlags(MemWrite(c, addr, data), data)

Brk(c) ==
    [c EXCEPT !.status = BitOr(BitOr(c.status, BREAK), BREAK2)]

And(c, mode) ==
    IF AddressPanic(c, mode) # "none" THEN Panic(c, AddressPanic(c, mode))
    ELSE LET addr == GetOperandAddress(c, mode)
             data == MemRead(c, addr)
         IN  SetRegisterA(c, BitAnd(data, c.register_a))

LsrAccumulator(c) ==
    LET data == c.register_a
        s1 == IF BitAnd(data, 1) = 1
              THEN BitOr(c.status, CARRY)
              ELSE BitAnd(c.status, BitNot(CARRY))
    IN  SetRegisterA([c EXCEPT !.status = s1], data \div 2)

Lsr(c, mode) ==
    IF AddressPanic(c, mode) # "none" THEN Panic(c, AddressPanic(c, mode))
    ELSE LET addr == GetOperandAddress(c, mode)
             data == MemRead(c, addr)
             s1 == IF BitAnd(data, 1) = 1
                   THEN BitOr(c.status, CARRY)
                   ELSE BitAnd(c.status, BitNot(CARRY))
             c1 == MemWrite([c EXCEPT !.status = s1], addr, data \div 2)
         IN  UpdateZeroAndNegativeFlags(c1, data \div 2)

\* mutant: bit 5 of the operand is copied into the status as well
Bit_CopiesBit5(c, mode) ==
    IF AddressPanic(c, mode) # "none" THEN Panic(c, AddressPanic(c, mode))
    ELSE LET addr == GetOperandAddress(c, mode)
             data == MemRead(c, addr)
             and == BitAnd(c.register_a, data)
             s1 == IF and = 0
                   THEN BitOr(c.status, ZERO)
                   ELSE BitAnd(c.status, BitNot(ZERO))
             s2 == IF BitAnd(data, 128) > 0
                   THEN BitOr(s1, NEGATIVE)
                   ELSE BitAnd(s1, BitNot(NEGATIVE))
             s3 == IF BitAnd(data, 64) > 0
                   THEN BitOr(s2, OVERFLOW)
                   ELSE BitAnd(s2, BitNot(OVERFLOW))
             s4 == IF BitAnd(data, 32) > 0
                   THEN BitOr(s3, BREAK2)
                   ELSE BitAnd(s3, BitNot(BREAK2))
         IN  [c EXCEPT !.status = s4]

Bit(c, mode) ==
    IF AddressPanic(c, mode) # "none" THEN Panic(c, AddressPanic(c, mode))
    ELSE LET addr == GetOperandAddress(c, mode)
             data == MemRead(c, addr)
             and == BitAnd(c.register_a, data)
             s1 == IF and = 0
                   THEN BitOr(c.status, ZERO)
                   ELSE BitAnd(c.status, BitNot(ZERO))
             s2 == IF BitAnd(data, 128) > 0
                   THEN BitOr(s1, NEGATIVE)
                   ELSE BitAnd(s1, BitNot(NEGATIVE))
             s3 == IF BitAnd(data, 64) > 0
                   THEN BitOr(s2, OVERFLOW)
                   ELSE BitAnd(s2, BitNot(OVERFLOW))
         IN  [c EXCEPT !.status = s3]

(***************************************************************************)
(* The match arms of run_with_callback.                                    *)
(***************************************************************************)
LdaOps == {\hA9, \hA5, \hB5, \hAD, \hBD, \hB9, \hA1, \hB1}
LdxOps == {\hA2, \hA6, \hB6, \hAE, \hBE}
LdyOps == {\hA0, \hA4, \hB4, \hAC, \hBC}
StaOps == {\h85, \h95, \h8D, \h9D, \h99, \h81, \h91}
StxOps == {\h86, \h96, \h8E}
CpxOps == {\hE0, \hE4, \hEC}
AdcOps == {\h69, \h65, \h75, \h6D, \h7D, \h79, \h61, \h71}
SbcOps == {\hE9, \hE5, \hF5, \hED, \hFD, \hF9, \hE1, \hF1}
AndOps == {\h29, \h25, \h35, \h2D, \h3D, \h39, \h21, \h31}
DecOps == {\hC6, \hD6, \hCE, \hDE}
BitOps == {\h24, \h2C}
CmpOps == {\hC9, \hC5, \hD5, \hCD, \hDD, \hD9, \hC1, \hD1}
LsrOps == {\h46, \h56, \h4E, \h5E}
IncOps == {\hE6, \hF6, \hEE, \hFE}

Jsr(c) ==
    IF Overflows16(c.program_counter + 2) THEN Panic(c, "overflow")
    ELSE LET ret == (c.program_counter + 2 - 1) % 65536
             c1 == StackPushU16(c, ret)
         IN  IF MemReadU16Panics(c1, c1.program_counter)
             THEN Panic(c1, "overflow")
             ELSE [c1 EXCEPT !.program_counter =
                                MemReadU16(c1, c1.program_counter)]

Rts(c) ==
    LET p == StackPopU16(c)
    IN  IF Overflows16(p.data + 1) THEN Panic(p.cpu, "overflow")
        ELSE [p.cpu EXCEPT !.program_counter = (p.data + 1) % 65536]

Jmp(c) ==
    IF MemReadU16Panics(c, c.program_counter) THEN Panic(c, "overflow")
    ELSE [c EXCEPT !.program_counter = MemReadU16(c, c.program_counter)]

\* The condition each branch opcode hands to CPU::branch.
BranchCondition(c, code) ==
    CASE code = \hD0 -> BitAnd(c.status, ZERO) = 0
      [] code = \hF0 -> BitAnd(c.status, ZERO) # 0
      [] code = \h70 -> BitAnd(c.status, OVERFLOW) # 0
      [] code = \h50 -> BitAnd(c.status, OVERFLOW) = 0
      [] code = \h10 -> BitAnd(c.status, NEGATIVE) = 0
      [] code = \h30 -> BitAnd(c.status, NEGATIVE) # 0
      [] code = \hB0 -> BitAnd(c.status, CARRY) # 0
      [] code = \h90 -> BitAnd(c.status, CARRY) = 0

Dispatch(c, code) ==
    CASE code \in LdaOps -> Lda(c, OpMode(code))
      [] code \in LdxOps -> Ldx(c, OpMode(code))
      [] code \in LdyOps -> Ldy(c, OpMode(code))
      [] code \in StaOps -> Sta(c, OpMode(code))
      [] code \in StxOps -> Stx(c, OpMode(code))
      [] code \in CpxOps -> Compare(c, OpMode(code), c.register_x)
      [] code = \h20 -> Jsr(c)
      [] code = \h60 -> Rts(c)
      [] code \in AdcOps -> Adc(c, OpMode(code))
      [] code \in SbcOps -> Sbc(c, OpMode(code))
      [] code \in AndOps -> And(c, OpMode(code))
      [] code \in BranchOps -> Branch(c, BranchCondition(c, code))
      [] code = \hCA -> Dex(c)
      [] code = \hAA -> Tax(c)
      [] code = \h8A -> Txa(c)
      [] code = \hE8 -> Inx(c)
      [] code = \h00 -> Brk(c)
      [] code \in DecOps -> Dec(c, OpMode(code))
      [] code = \hD8 -> [c EXCEPT !.status = BitAnd(c.status, BitNot(DECIMAL))]
      [] code = \h58 -> [c EXCEPT !.status = BitAnd(c.status, BitNot(INTERRUPT))]
      [] code = \hB8 -> [c EXCEPT !.status = BitAnd(c.status, BitNot(OVERFLOW))]
      [] code = \h18 -> [c EXCEPT !.status = BitAnd(c.status, BitNot(CARRY))]
      [] code = \h38 -> [c EXCEPT !.status = BitOr(c.status, CARRY)]
      [] code = \h78 -> [c EXCEPT !.status = BitOr(c.status, INTERRUPT)]
      [] code = \hF8 -> [c EXCEPT !.status = BitOr(c.status, DECIMAL)]
      [] code \in BitOps -> Bit(c, OpMode(code))
      [] code \in CmpOps -> Compare(c, OpMode(code), c.register_a)
      [] code = \h4A -> LsrAccumulator(c)
      [] code \in LsrOps -> Lsr(c, OpMode(code))
      [] code \in IncOps -> Inc(c, OpMode(code))
      [] code = \h4C -> Jmp(c)
      [] code = \hEA -> c
      [] OTHER -> Panic(c, "todo")

\* The program counter after the instruction body: advanced by len - 1 when
\* the body left it at its post-fetch value.
Advance(c, code, program_counter_state) ==
    IF program_counter_state = c.program_counter
    THEN IF Overflows16(c.program_counter + (OpLen(code) - 1))
         THEN Panic(c, "overflow")
         ELSE [c EXCEPT !.program_counter =
                            (c.program_counter + (OpLen(code) - 1)) % 65536]
    ELSE c

\* One iteration of the loop, up to (not including) the callback.
Iteration(c) ==
    LET code == MemRead(c, c.program_counter)
    IN  IF Overflows16(c.program_counter + 1) THEN Panic(c, "overflow")
        ELSE
        LET c1 == [c EXCEPT !.program_counter = (c.program_counter + 1) % 65536]
            program_counter_state == c1.program_counter
        IN  IF code \notin OPCODES_MAP THEN Panic(c1, "unknown_opcode")
            ELSE
            LET c2 == Dispatch(c1, code)
            IN  IF c2.panic # "none" THEN c2
                ELSE IF code = \h00 THEN c2
                ELSE Advance(c2, code, program_counter_state)

(***************************************************************************)
(* The state machine.                                                      *)
(***************************************************************************)
Cpu ==
    [register_a |-> register_a, register_x |-> register_x,
     register_y |-> register_y, stack_pointer |-> stack_pointer,
     program_counter |-> program_counter, status |-> status,
     memory |-> memory, panic |-> panic]

SetCpu(c) ==
    /\ register_a' = c.register_a
    /\ register_x' = c.register_x
    /\ register_y' = c.register_y
    /\ stack_pointer' = c.stack_pointer
    /\ program_counter' = c.program_counter
    /\ status' = c.status
    /\ memory' = c.memory
    /\ panic' = c.panic

IsCpu(c) ==
    /\ register_a = c.register_a
    /\ register_x = c.register_x
    /\ register_y = c.register_y
    /\ stack_pointer = c.stack_pointer
    /\ program_counter = c.program_counter
    /\ status = c.status
    /\ memory = c.memory
    /\ panic = c.panic

\* bytes written at consecutive (wrapping) addresses from p on
RECURSIVE Place(_, _, _)
Place(c, p, bytes) ==
    IF bytes = <<>> THEN c
    ELSE Place(MemWrite(c, p, Head(bytes)), (p + 1) % 65536, Tail(bytes))

(***************************************************************************)
(* The programs handed to load.                                            *)
(***************************************************************************)
LdaProgram == <<\hA9, \h05, \h00>>
LdaZeroProgram == <<\hA9, \h00, \h00>>
TaxProgram == <<\hA9, \h0A, \hAA, \h00>>
FiveOpsProgram == <<\hA9, \hC0, \hAA, \hE8, \h69, \hC4, \h00>>
InxOverflowProgram == <<\hA9, \hFF, \hAA, \hE8, \hE8, \h00>>
LdaFromMemoryProgram == <<\hA5, \h10, \h00>>
CountdownProgram == <<\hA2, \h08, \hCA, \h8E, \h00, \h02, \hE0, \h03, \hD0,
                      \hF8, \h8E, \h01, \h02, \h00>>
SubroutineProgram == <<\h20, \h05, \h06, \hE8, \h00, \hA9, \h07, \h60>>
BrkProgram == <<\h00>>
\* a program whose last byte lands on the low byte of the reset vector
LongLen == RESET_VECTOR - ORIGIN + 1
LongProgram ==
    SubSeq([i \in 1..LongLen |-> IF i = LongLen THEN \hEA ELSE \h00], 1, LongLen)

\* LDA $10; BRK followed by bytes up to and past the end of the address
\* space: byte number WrapLen is the one written with i = 0xFA10
WrapLen == 65536 - ORIGIN + \h10 + 1
WrapProgram ==
    SubSeq([i \in 1..WrapLen |->
               CASE i = 1 -> \hA5
                 [] i = 2 -> \h10
                 [] i = WrapLen -> \h77
                 [] OTHER -> \h00], 1, WrapLen)

Programs ==
    {LdaProgram, LdaZeroProgram, TaxProgram, FiveOpsProgram,
     InxOverflowProgram, LdaFromMemoryProgram, CountdownProgram,
     SubroutineProgram, BrkProgram, <<>>, LongProgram, WrapProgram}

\* A processor the embedder has used before: the fields of CPU are public
\* and mem_write is a public method.
UsedCpu ==
    [register_a |-> 10, register_x |-> \hFF, register_y |-> 7,
     stack_pointer |-> \h10, program_counter |-> \h1234, status |-> \hFF,
     memory |-> (\h10 :> \h55) @@ (\hFFFC :> \h34) @@ (\hFFFD :> \h12)
                @@ (\h0602 :> \hEA),
     panic |-> "none"]

Harness(c, ph, prog) ==
    /\ IsCpu(c)
    /\ phase = ph
    /\ overflow_checks \in BOOLEAN
    /\ program = prog
    /\ retired = 0
    /\ callbacks = 0
    /\ observed = c.program_counter
    /\ before = [cpu |-> c, code |-> -1]
    /\ pushed = 0
    /\ returned = 0
    /\ accessed = {}

\* load_and_run on a new or a used processor
InitProgram ==
    \E prog \in Programs, c \in {New, UsedCpu} : Harness(c, "new", prog)

(***************************************************************************)
(* run() entered on a processor the embedder has set up directly: one      *)
(* instruction at each of a few addresses, the rest of the memory zero.    *)
(***************************************************************************)
OpcodeAddrs == {\h0600, \h0000, \hFFFD, \hFFFE, \hFFFF}
Offsets == {\h00, \h01, \h7F, \h80, \hF8, \hFE, \hFF}
BranchStatus == {\h00, \hC3}

InitBranch ==
    \E code \in BranchOps, p \in OpcodeAddrs, off \in Offsets,
       st \in BranchStatus :
        Harness(Place([New EXCEPT !.program_counter = p, !.status = st],
                      p, <<code, off>>),
                "running", <<>>)

JumpTargets(p) ==
    {p, (p + 1) % 65536, (p + 2) % 65536, (p + 3) % 65536,
     \h0000, \hFFFF, \h1234}

InitJump ==
    \E code \in JumpOps, p \in OpcodeAddrs :
        \E t \in JumpTargets(p) :
            Harness(Place([New EXCEPT !.program_counter = p],
                          p, <<code, t % 256, t \div 256>>),
                    "running", <<>>)

\* any opcode byte, recognized or not, with two operand patterns and two
\* register files; the data cells cover the zero page and the stack page
DataCells ==
    (\h00 :> \h80) @@ (\h01 :> \h02) @@ (\h10 :> \h55) @@ (\h11 :> \hFF)
    @@ (\hFF :> \h01) @@ (\h01FE :> \hFF) @@ (\h01FF :> \hFF)
    @@ (\h0210 :> \h7F)

OperandPairs == {<<\h10, \h02>>, <<\hFF, \hFF>>}

RegisterFiles ==
    {[New EXCEPT !.memory = DataCells],
     [New EXCEPT !.register_a = \h80, !.register_x = \h01,
                 !.register_y = \hFF, !.status = \hC3,
                 !.memory = DataCells]}

InitAny ==
    \E code \in Byte, p \in {\h0600, \hFFFD, \hFFFE, \hFFFF},
       ops \in OperandPairs, r \in RegisterFiles :
        Harness(Place([r EXCEPT !.program_counter = p],
                      p, <<code, ops[1], ops[2]>>),
                "running", <<>>)

Init == InitProgram \/ InitBranch \/ InitJump \/ InitAny

(***************************************************************************)
(* Actions.                                                                *)
(***************************************************************************)
Load ==
    /\ phase = "new"
    /\ \E c \in {LoadCpu(Cpu, program)} :
           /\ SetCpu(c)
           /\ phase' = IF c.panic # "none" THEN "failed" ELSE "loaded"
    /\ UNCHANGED <<overflow_checks, program, retired, callbacks, observed,
                   before, pushed, returned, accessed>>

Reset ==
    /\ phase = "loaded"
    /\ \E c \in {ResetCpu(Cpu)} : SetCpu(c)
    /\ phase' = "reset"
    /\ UNCHANGED <<overflow_checks, program, retired, callbacks, observed,
                   before, pushed, returned, accessed>>

\* run() / run_with_callback entered
Run ==
    /\ phase = "reset"
    /\ phase' = "running"
    /\ UNCHANGED <<register_a, register_x, register_y, status,
                   program_counter, stack_pointer, memory, panic,
                   overflow_checks, program, retired, callbacks, observed,
                   before, pushed, returned, accessed>>

\* fetch, decode, execute and advance one instruction
Execute ==
    /\ phase = "running"
    /\ retired < MaxSteps
    /\ \E code \in {MemRead(Cpu, program_counter)}, c \in {Iteration(Cpu)} :
           /\ SetCpu(c)
           /\ before' = [cpu |-> Cpu, code |-> code]
           /\ phase' = IF c.panic # "none" THEN "failed"
                       ELSE IF code = \h00 THEN "halted"
                       ELSE "callback"
           /\ retired' = IF c.panic = "none" THEN retired + 1 ELSE retired
    /\ UNCHANGED <<overflow_checks, program, callbacks, observed, pushed,
                   returned, accessed>>

\* callback(self), with the hook of run(): it observes and changes nothing
Callback ==
    /\ phase = "callback"
    /\ callbacks' = callbacks + 1
    /\ observed' = program_counter
    /\ phase' = "running"
    /\ UNCHANGED <<register_a, register_x, register_y, status,
                   program_counter, stack_pointer, memory, panic,
                   overflow_checks, program, retired, before, pushed,
                   returned, accessed>>

Next == Load \/ Reset \/ Run \/ Execute \/ Callback

Spec == Init /\ [][Next]_vars

(***************************************************************************)
(* The stack operations applied on their own: a push followed immediately  *)
(* by the matching pop, from every stack pointer of StackPointers.         *)
(***************************************************************************)
StackPointers == {\h00, \h01, \h7F, \hFD, \hFE, \hFF}
StackBytes == {\h00, \h01, \h7F, \h80, \hFF}
StackWords == {\h0000, \h00FF, \h0602, \hABCD, \hFFFF}

InitStack ==
    \E sp \in StackPointers, m \in {<<>>, DataCells} :
        Harness([New EXCEPT !.stack_pointer = sp, !.memory = m],
                "stack", <<>>)

Push8 ==
    /\ phase = "stack"
    /\ \E b \in StackBytes :
        /\ SetCpu(StackPush(Cpu, b))
        /\ pushed' = b
    /\ accessed' = accessed \cup {StackAddr(stack_pointer)}
    /\ before' = [cpu |-> Cpu, code |-> -1]
    /\ phase' = "pushed8"
    /\ UNCHANGED <<overflow_checks, program, retired, callbacks, observed,
                   returned>>

Pop8 ==
    /\ phase = "pushed8"
    /\ \E p \in {StackPop(Cpu)} :
        /\ SetCpu(p.cpu)
        /\ returned' = p.data
        /\ accessed' = accessed \cup {StackAddr(p.cpu.stack_pointer)}
    /\ phase' = "popped8"
    /\ UNCHANGED <<overflow_checks, program, retired, callbacks, observed,
                   before, pushed>>

Push16 ==
    /\ phase = "stack"
    /\ \E w \in StackWords :
        /\ SetCpu(StackPushU16(Cpu, w))
        /\ pushed' = w
    /\ accessed' = accessed \cup {StackAddr(stack_pointer),
                                  StackAddr(WrappingSub8(stack_pointer, 1))}
    /\ before' = [cpu |-> Cpu, code |-> -1]
    /\ phase' = "pushed16"
    /\ UNCHANGED <<overflow_checks, program, retired, callbacks, observed,
                   returned>>

Pop16 ==
    /\ phase = "pushed16"
    /\ \E p \in {StackPopU16(Cpu)} :
        /\ SetCpu(p.cpu)
        /\ returned' = p.data
        /\ accessed' = accessed \cup {StackAddr(p.cpu.stack_pointer),
                            StackAddr(WrappingSub8(p.cpu.stack_pointer, 1))}
    /\ phase' = "popped16"
    /\ UNCHANGED <<overflow_checks, program, retired, callbacks, observed,
                   before, pushed>>

NextStack == Push8 \/ Pop8 \/ Push16 \/ Pop16

SpecStack == InitStack /\ [][NextStack]_vars

(***************************************************************************)
(* reset() called twice in a row on a processor in any state: `before` is  *)
(* the processor as it was when the last reset() was entered.              *)
(***************************************************************************)
ResetVectors ==
    {<<>>,
     (\hFFFC :> \h00) @@ (\hFFFD :> \h06),
     (\hFFFC :> \hFF) @@ (\hFFFD :> \hFF) @@ (\hFFFE :> \h12),
     (\hFFFC :> \hFC) @@ (\hFFFD :> \hFF) @@ (\h0600 :> \hA9),
     DataCells}

InitReset ==
    \E a \in {\h00, \h80}, x \in {\h00, \hFF}, y \in {\h00, \h07},
       sp \in {\h00, \hFD, \hFF}, pc \in {\h0000, \h0600, \hFFFF},
       st \in {\h00, \h30, \hFF}, m \in ResetVectors :
        Harness([New EXCEPT !.register_a = a, !.register_x = x,
                            !.register_y = y, !.stack_pointer = sp,
                            !.program_counter = pc, !.status = st,
                            !.memory = m],
                "used", <<>>)

ResetOnce ==
    /\ phase = "used"
    /\ \E c \in {ResetCpu(Cpu)} : SetCpu(c)
    /\ before' = [cpu |-> Cpu, code |-> -1]
    /\ phase' = "reset_once"
    /\ UNCHANGED <<overflow_checks, program, retired, callbacks, observed,
                   pushed, returned, accessed>>

ResetTwice ==
    /\ phase = "reset_once"
    /\ \E c \in {ResetCpu(Cpu)} : SetCpu(c)
    /\ before' = [cpu |-> Cpu, code |-> -1]
    /\ phase' = "reset_twice"
    /\ UNCHANGED <<overflow_checks, program, retired, callbacks, observed,
                   pushed, returned, accessed>>

NextReset == ResetOnce \/ ResetTwice

SpecReset == InitReset /\ [][NextReset]_vars

(***************************************************************************)
(* run() entered with one instruction at 0x0600 and its operand drawn from *)
(* every byte: the loop executes it, calls the hook and reaches the BRK    *)
(* that follows it.                                                        *)
(***************************************************************************)
NextRun == Execute \/ Callback

\* the instruction `bytes` at 0x0600, data byte m in cell `cell`
OneInstruction(c, bytes, cell, m) ==
    Harness(Place(MemWrite([c EXCEPT !.program_counter = ORIGIN], cell, m),
                  ORIGIN, bytes),
            "running", <<>>)

\* status bytes with none and with all of the flags set
FlagFiles == {\h00, \hFF}

\* bytes around the sign and wrap boundaries
EdgeBytes == {\h00, \h01, \h02, \h3F, \h40, \h7F, \h80, \h81, \hC0,
              \hC4, \hFE, \hFF}

CompareCpu(code, r, st) ==
    IF code \in CmpOps
    THEN [New EXCEPT !.register_a = r, !.register_x = \h55,
                     !.register_y = \hAA, !.status = st]
    ELSE [New EXCEPT !.register_x = r, !.register_a = \h55,
                     !.register_y = \hAA, !.status = st]

\* CMP and CPX immediate on every pair of bytes; on the edge bytes also
\* through a zero-page and an absolute address and with every flag set
InitCompare ==
    \/ \E r \in Byte, m \in Byte, code \in {\hC9, \hE0} :
           OneInstruction(CompareCpu(code, r, \h00), <<code, m>>,
                          ORIGIN + 1, m)
    \/ \E r \in EdgeBytes, m \in EdgeBytes, st \in FlagFiles :
           \/ \E code \in {\hC9, \hE0} :
                  OneInstruction(CompareCpu(code, r, st), <<code, m>>,
                                 ORIGIN + 1, m)
           \/ \E code \in {\hC5, \hE4} :
                  OneInstruction(CompareCpu(code, r, st), <<code, \h10>>,
                                 \h0010, m)
           \/ \E code \in {\hCD, \hEC} :
                  OneInstruction(CompareCpu(code, r, st),
                                 <<code, \h34, \h12>>, \h1234, m)

SpecCompare == InitCompare /\ [][NextRun]_vars

\* ADC immediate on every accumulator, operand and carry-in; on the edge
\* bytes also through a zero-page address and with the other flags set
InitAdc ==
    \/ \E a \in Byte, m \in Byte, cin \in {0, 1} :
           OneInstruction([New EXCEPT !.register_a = a, !.status = cin],
                          <<\h69, m>>, ORIGIN + 1, m)
    \/ \E a \in EdgeBytes, m \in EdgeBytes,
          st \in {\h00, \h01, \hFE, \hFF} :
           \/ OneInstruction([New EXCEPT !.register_a = a, !.status = st],
                             <<\h69, m>>, ORIGIN + 1, m)
           \/ OneInstruction([New EXCEPT !.register_a = a, !.status = st],
                             <<\h65, \h10>>, \h0010, m)

SpecAdc == InitAdc /\ [][NextRun]_vars

\* every byte moved by LDA, LDX, LDY (immediate, zero page, absolute),
\* TAX and TXA, from four status bytes
InitLoad ==
    \E v \in Byte, st \in {\h00, \h7D, \h82, \hFF} :
        LET c == [New EXCEPT !.register_a = \h55, !.register_x = \h66,
                             !.register_y = \h77, !.status = st]
        IN  \/ \E code \in {\hA9, \hA2, \hA0} :
                   OneInstruction(c, <<code, v>>, ORIGIN + 1, v)
            \/ \E code \in {\hA5, \hA6, \hA4} :
                   OneInstruction(c, <<code, \h10>>, \h0010, v)
            \/ \E code \in {\hAD, \hAE, \hAC} :
                   OneInstruction(c, <<code, \h34, \h12>>, \h1234, v)
            \/ OneInstruction([c EXCEPT !.register_a = v], <<\hAA>>,
                              \h0010, \h99)
            \/ OneInstruction([c EXCEPT !.register_x = v], <<\h8A>>,
                              \h0010, \h99)

SpecLoad == InitLoad /\ [][NextRun]_vars

\* STA zp,X and STX zp,Y on every base byte and index; LDA zp,X, LDY zp,X
\* and LDX zp,Y on the edge bytes, with different bytes in the cell inside
\* the zero page and in the cell 0x0100 above it
InitZeroPage ==
    \/ \E b \in Byte, i \in Byte :
           \/ OneInstruction([New EXCEPT !.register_a = \h5A, !.register_x = i],
                             <<\h95, b>>, ORIGIN + 1, b)
           \/ OneInstruction([New EXCEPT !.register_x = \h5A, !.register_y = i],
                             <<\h96, b>>, ORIGIN + 1, b)
    \/ \E b \in EdgeBytes, i \in EdgeBytes, code \in {\hB5, \hB4, \hB6} :
           LET c == [New EXCEPT !.register_x = i, !.register_y = i]
               inside == (b + i) % 256
           IN  OneInstruction(MemWrite(c, inside + 256, \hA5),
                              <<code, b>>, inside, \h5A)

SpecZeroPage == InitZeroPage /\ [][NextRun]_vars

\* INX and DEX on every index_x, INC and DEC on every cell byte (zero page,
\* zero page indexed, absolute), from four status bytes; and the program
\* of test_inx_overflow through load, reset and run
InitIncDec ==
    \/ \E v \in Byte, st \in {\h00, \h7D, \h82, \hFF} :
           LET c == [New EXCEPT !.register_a = \h55, !.register_x = \h01,
                                !.register_y = \h77, !.status = st]
           IN  \/ \E code \in {\hE8, \hCA} :
                      OneInstruction([c EXCEPT !.register_x = v], <<code>>,
                                     \h0010, \h99)
               \/ \E code \in {\hE6, \hC6} :
                      OneInstruction(c, <<code, \h10>>, \h0010, v)
               \/ \E code \in {\hF6, \hD6} :
                      OneInstruction(c, <<code, \hFF>>, \h0000, v)
               \/ \E code \in {\hEE, \hCE} :
                      OneInstruction(c, <<code, \h34, \h12>>, \h1234, v)
    \/ Harness([New EXCEPT !.register_x = \hFF], "new", InxOverflowProgram)

SpecIncDec == InitIncDec /\ [][Next]_vars

\* SBC immediate on every accumulator, operand and carry-in; on the edge
\* bytes also through a zero-page address and with the other flags set
InitSbc ==
    \/ \E a \in Byte, m \in Byte, cin \in {0, 1} :
           OneInstruction([New EXCEPT !.register_a = a, !.status = cin],
                          <<\hE9, m>>, ORIGIN + 1, m)
    \/ \E a \in EdgeBytes, m \in EdgeBytes,
          st \in {\h00, \h01, \hFE, \hFF} :
           \/ OneInstruction([New EXCEPT !.register_a = a, !.status = st],
                             <<\hE9, m>>, ORIGIN + 1, m)
           \/ OneInstruction([New EXCEPT !.register_a = a, !.status = st],
                             <<\hE5, \h10>>, \h0010, m)

SpecSbc == InitSbc /\ [][NextRun]_vars

\* Two zero pages filled with pointers, and a different byte in 0x0100.
PointerTables ==
    {[k \in 0..256 |-> IF k = 256 THEN \hEE ELSE ((7 * k) + 3) % 256],
     [k \in 0..256 |-> IF k = 256 THEN \h11 ELSE 255 - k]}

\* STA and LDA in (indirect,X) and (indirect),Y mode on every operand byte,
\* with index registers from the edge bytes
InitIndirect ==
    \E b \in Byte, i \in EdgeBytes, t \in PointerTables,
       code \in {\h81, \h91, \hA1, \hB1} :
        OneInstruction([New EXCEPT !.register_a = \h5A, !.register_x = i,
                                   !.register_y = i, !.memory = t],
                       <<code, b>>, ORIGIN + 1, b)

SpecIndirect == InitIndirect /\ [][NextRun]_vars

\* SEC; SED; SEI; LDA #$FF; STA $10; BIT $10; LSR A; ADC #$7F; CMP #$01;
\* CLC; CLD; CLI; CLV; BRK
FlagProgram ==
    <<\h38, \hF8, \h78, \hA9, \hFF, \h85, \h10, \h24, \h10, \h4A, \h69,
      \h7F, \hC9, \h01, \h18, \hD8, \h58, \hB8, \h00>>

FlagPrograms ==
    {FlagProgram, LdaProgram, FiveOpsProgram, InxOverflowProgram,
     LdaFromMemoryProgram, CountdownProgram, SubroutineProgram, BrkProgram}

\* status bytes with Break and Break2 clear and set
StatusFiles == {\h00, \h30, \hCF, \hFF}

\* load_and_run of the programs above (`program` is not empty), and run()
\* entered on any opcode byte with any of the status bytes (`program` is
\* empty)
InitFlags ==
    \/ \E prog \in FlagPrograms, c \in {New, UsedCpu} :
           Harness(c, "new", prog)
    \/ \E code \in Byte, st \in StatusFiles, ops \in OperandPairs,
          r \in RegisterFiles :
           Harness(Place([r EXCEPT !.program_counter = ORIGIN, !.status = st],
                         ORIGIN, <<code, ops[1], ops[2]>>),
                   "running", <<>>)

SpecFlags == InitFlags /\ [][Next]_vars

(***************************************************************************)
(* Vocabulary of the properties.                                           *)
(***************************************************************************)
\* an instruction has just been executed and retired (its program counter
\* is final, the callback has not run yet)
Retired(codes) == phase = "callback" /\ before.code \in codes

\* bit `flag` of status byte st
Flag(st, flag) == (st \div flag) % 2 = 1

\* the byte at offset k after the opcode of the instruction just executed
Operand(k) ==
    MemRead(before.cpu, (before.cpu.program_counter + k) % 65536)

\* the condition each branch tests, by mnemonic
Tested(code, st) ==
    CASE code = \hD0 -> ~Flag(st, ZERO)      \* BNE
      [] code = \hF0 -> Flag(st, ZERO)       \* BEQ
      [] code = \h70 -> Flag(st, OVERFLOW)   \* BVS
      [] code = \h50 -> ~Flag(st, OVERFLOW)  \* BVC
      [] code = \h10 -> ~Flag(st, NEGATIVE)  \* BPL
      [] code = \h30 -> Flag(st, NEGATIVE)   \* BMI
      [] code = \hB0 -> Flag(st, CARRY)      \* BCS
      [] code = \h90 -> ~Flag(st, CARRY)     \* BCC

SignedOffset(b) == IF b > 127 THEN b - 256 ELSE b

\* the memory operand of the instruction just executed: the byte at the
\* address its addressing mode resolved to
OperandAddress ==
    GetOperandAddress(
        [before.cpu EXCEPT !.program_counter =
                              (before.cpu.program_counter + 1) % 65536],
        OpMode(before.code))

MemoryOperand == MemRead(before.cpu, OperandAddress)

\* the status bits of `flags` are as they were before the instruction
Kept(flags) ==
    \A f \in flags : Flag(status, f) <=> Flag(before.cpu.status, f)

\* bit 7 of a byte, and the carry flag of the status before the instruction
Bit7(v) == v >= 128
CarryIn == IF Flag(before.cpu.status, CARRY) THEN 1 ELSE 0

\* every cell but those of `cells` holds what it held before the instruction
OnlyWritten(cells) ==
    \A x \in ((DOMAIN memory) \cup (DOMAIN before.cpu.memory)) \ cells :
        MemRead(Cpu, x) = MemRead(before.cpu, x)

(***************************************************************************)
(* C1.  After a branch instruction retires, the program counter is the     *)
(* address of the byte following the offset byte plus the signed offset    *)
(* (mod 65536) when the tested condition is true, and the address of the   *)
(* byte following the offset byte when it is false.                        *)
(***************************************************************************)
C1_BranchTarget ==
    Retired(BranchOps) =>
        LET following == before.cpu.program_counter + 2
        IN  program_counter =
                IF Tested(before.code, before.cpu.status)
                THEN (following + SignedOffset(Operand(1)) + 65536) % 65536
                ELSE following % 65536

(***************************************************************************)
(* C2.  After JMP absolute (0x4C) retires, the program counter is the      *)
(* little-endian word stored in its two operand bytes, whatever the word.  *)
(***************************************************************************)
C2_JmpTarget ==
    Retired({\h4C}) => program_counter = Operand(1) + (256 * Operand(2))

(***************************************************************************)
(* C3.  The program LDA #$C0; TAX; INX; ADC #$C4; BRK run from a freshly   *)
(* loaded and reset processor halts with index_x = 0xC1, accumulator =     *)
(* 0x84, Carry and Negative set -- and Overflow clear (C3_FiveOps); the    *)
(* claim as made has Overflow set (C3_FiveOpsOverflowSet).                 *)
(***************************************************************************)
FiveOpsHalted == phase = "halted" /\ program = FiveOpsProgram

C3_FiveOps ==
    FiveOpsHalted =>
        /\ register_x = \hC1
        /\ register_a = \h84
        /\ Flag(status, CARRY)
        /\ Flag(status, NEGATIVE)
        /\ ~Flag(status, OVERFLOW)

C3_FiveOpsOverflowSet ==
    FiveOpsHalted =>
        /\ register_x = \hC1
        /\ register_a = \h84
        /\ Flag(status, CARRY)
        /\ Flag(status, OVERFLOW)
        /\ Flag(status, NEGATIVE)

C3_Witness ==
    /\ FiveOpsHalted
    /\ retired = 5
    /\ before.cpu.program_counter = ORIGIN + 6
    /\ register_a = \h84

(***************************************************************************)
(* C4.  After load(program); reset() the cells origin..origin+len-1 hold   *)
(* the program bytes in order, 0xFFFC/0xFFFD hold the origin little-endian,*)
(* accumulator, index_x, index_y and status are 0, the stack pointer is    *)
(* 0xFD and the program counter is the origin 0x0600 -- for every program  *)
(* that ends below the reset vector (C4_LoadReset); the claim as made is   *)
(* for every program (C4_LoadResetAnyProgram).                             *)
(***************************************************************************)
LoadedAndReset ==
    /\ \A i \in 1..Len(program) :
          MemRead(Cpu, (ORIGIN + i - 1) % 65536) = program[i]
    /\ MemRead(Cpu, RESET_VECTOR) = ORIGIN % 256
    /\ MemRead(Cpu, RESET_VECTOR + 1) = ORIGIN \div 256
    /\ register_a = 0
    /\ register_x = 0
    /\ register_y = 0
    /\ status = 0
    /\ stack_pointer = \hFD
    /\ program_counter = ORIGIN
    /\ program_counter = \h0600

C4_LoadReset ==
    (phase = "reset" /\ Len(program) <= RESET_VECTOR - ORIGIN)
        => LoadedAndReset

C4_LoadResetAnyProgram == phase = "reset" => LoadedAndReset

C4_Witness ==
    /\ phase = "reset"
    /\ program = CountdownProgram
    /\ before.cpu = UsedCpu
    /\ program_counter = ORIGIN

(***************************************************************************)
(* C5.  Program-counter arithmetic never fails: no step of the processor   *)
(* ends in an integer-overflow panic.                                      *)
(***************************************************************************)
C5_NoOverflowFailure == panic # "overflow"

(***************************************************************************)
(* C6.  Execution fails in exactly two ways, an opcode byte without a      *)
(* table entry or an address requested with NoneAddressing; an opcode      *)
(* that has a table entry with a concrete addressing mode never fails.     *)
(***************************************************************************)
C6_OnlyTwoFailures ==
    (phase = "failed" /\ before.code # -1) =>
        /\ panic \in {"unknown_opcode", "none_addressing"}
        /\ panic = "unknown_opcode" <=> before.code \notin OPCODES_MAP
        /\ ~(before.code \in OPCODES_MAP
             /\ OpMode(before.code) # "NoneAddressing")

(***************************************************************************)
(* C7.  The hook is invoked once for every instruction executed, the       *)
(* final BRK included: whenever the loop is about to fetch, or has halted, *)
(* the hook has been called as many times as instructions were executed,   *)
(* and it saw the final program counter of the instruction before it.      *)
(***************************************************************************)
C7_HookPerInstruction ==
    /\ phase \in {"running", "halted"} => callbacks = retired
    /\ (phase = "running" /\ callbacks > 0) => observed = program_counter

(***************************************************************************)
(* C8.  The loop halts if and only if BRK is fetched: a fetched BRK sets   *)
(* Break and Break2, changes nothing else but the program counter, and     *)
(* ends the loop; every other recognized instruction leaves it running.    *)
(***************************************************************************)
C8_BrkHalts ==
    (phase \in {"halted", "callback", "failed"} /\ before.code # -1) =>
        /\ before.code = \h00 =>
              /\ phase = "halted"
              /\ Flag(status, BREAK) /\ Flag(status, BREAK2)
              /\ \A f \in {CARRY, ZERO, INTERRUPT, DECIMAL, OVERFLOW, NEGATIVE} :
                    Flag(status, f) <=> Flag(before.cpu.status, f)
              /\ register_a = before.cpu.register_a
              /\ register_x = before.cpu.register_x
              /\ register_y = before.cpu.register_y
              /\ stack_pointer = before.cpu.stack_pointer
              /\ memory = before.cpu.memory
        /\ phase = "halted" => before.code = \h00
        /\ (before.code \in OPCODES_MAP /\ before.code # \h00)
              => phase = "callback"

(***************************************************************************)
(* C9.  The countdown program, run from a freshly loaded and reset         *)
(* processor, halts on BRK with index_x = 3: until it has, a step of the   *)
(* run is always possible (and a run executes at most MaxSteps             *)
(* instructions, so it ends), and each time its BNE retires it has         *)
(* returned to the DEX while index_x # 3 and fallen through once           *)
(* index_x = 3.                                                            *)
(***************************************************************************)
CountdownHalted ==
    phase = "halted" /\ program = CountdownProgram /\ before.code = \h00

C9_CountdownHalts ==
    program = CountdownProgram =>
        /\ (CountdownHalted /\ register_x = \h03) \/ ENABLED Next
        /\ Retired({\hD0}) =>
              program_counter =
                  IF register_x # \h03 THEN ORIGIN + 2 ELSE ORIGIN + 10

C9_Witness ==
    /\ CountdownHalted
    /\ register_x = \h03
    /\ retired = 23
    /\ MemRead(Cpu, \h0200) = \h03
    /\ MemRead(Cpu, \h0201) = \h03

(***************************************************************************)
(* C10.  A push followed immediately by the matching pop returns the       *)
(* value pushed and restores the stack pointer, for bytes and for words,   *)
(* and every address the stack operations touch lies in 0x0100..0x01FF.    *)
(***************************************************************************)
C10_StackRoundTrip ==
    /\ phase \in {"popped8", "popped16"} =>
          /\ returned = pushed
          /\ stack_pointer = before.cpu.stack_pointer
    /\ accessed \subseteq \h0100..\h01FF

C10_Witness ==
    /\ phase = "popped16"
    /\ before.cpu.stack_pointer = \h00
    /\ stack_pointer = \h00
    /\ pushed = \hABCD
    /\ accessed = {\h0100, \h01FF}

(***************************************************************************)
(* C11.  reset() is idempotent: the processor after reset(); reset() is    *)
(* the processor after a single reset() -- accumulator, index registers,   *)
(* status, stack pointer and program counter -- and neither reset changes  *)
(* a memory cell.                                                          *)
(***************************************************************************)
C11_ResetIdempotent ==
    /\ phase = "reset_once" => memory = before.cpu.memory
    /\ phase = "reset_twice" =>
          /\ register_a = before.cpu.register_a
          /\ register_x = before.cpu.register_x
          /\ register_y = before.cpu.register_y
          /\ status = before.cpu.status
          /\ stack_pointer = before.cpu.stack_pointer
          /\ program_counter = before.cpu.program_counter
          /\ memory = before.cpu.memory

C11_Witness ==
    /\ phase = "reset_twice"
    /\ program_counter = \hFFFF
    /\ stack_pointer = \hFD
    /\ MemRead(Cpu, \hFFFE) = \h12

(***************************************************************************)
(* C12.  After CMP (register = accumulator) or CPX (register = index_x)    *)
(* with register value r and memory operand m: Carry is set iff m <= r,    *)
(* Zero iff m = r, Negative is bit 7 of (r - m) mod 256, and the           *)
(* registers, the other status bits and the memory are unchanged.          *)
(***************************************************************************)
C12_Compare ==
    Retired(CmpOps \cup CpxOps) =>
        LET r == IF before.code \in CmpOps THEN before.cpu.register_a
                 ELSE before.cpu.register_x
            m == MemoryOperand
        IN  /\ Flag(status, CARRY) <=> m <= r
            /\ Flag(status, ZERO) <=> m = r
            /\ Flag(status, NEGATIVE) <=> ((r - m + 256) % 256) >= 128
            /\ Kept({INTERRUPT, DECIMAL, BREAK, BREAK2, OVERFLOW})
            /\ register_a = before.cpu.register_a
            /\ register_x = before.cpu.register_x
            /\ register_y = before.cpu.register_y
            /\ stack_pointer = before.cpu.stack_pointer
            /\ memory = before.cpu.memory

C12_Witness ==
    /\ Retired({\hEC})
    /\ before.cpu.register_x = \h80
    /\ MemoryOperand = \h80
    /\ before.cpu.status = \h00
    /\ status = \h03

(***************************************************************************)
(* C13.  After ADC with accumulator a, operand m and carry-in c: the       *)
(* accumulator is (a + m + c) mod 256, Carry is set iff a + m + c > 0xFF,  *)
(* Overflow is set iff bit 7 of (m XOR result) AND (result XOR a) is set   *)
(* (a taken before the update), Zero and Negative are those of the         *)
(* result, and Interrupt-Disable, Decimal, Break and Break2 are unchanged; *)
(* 0x80 + 0x80 + 0 gives 0x00 with Carry, Overflow and Zero set and        *)
(* Negative clear.                                                         *)
(***************************************************************************)
C13_Adc ==
    Retired(AdcOps) =>
        LET a == before.cpu.register_a
            m == MemoryOperand
            sum == a + m + CarryIn
            result == sum % 256
        IN  /\ register_a = result
            /\ Flag(status, CARRY) <=> sum > \hFF
            /\ Flag(status, OVERFLOW) <=>
                   (Bit7(m) # Bit7(result) /\ Bit7(result) # Bit7(a))
            /\ Flag(status, ZERO) <=> result = 0
            /\ Flag(status, NEGATIVE) <=> Bit7(result)
            /\ Kept({INTERRUPT, DECIMAL, BREAK, BREAK2})
            /\ (a = \h80 /\ m = \h80 /\ CarryIn = 0) =>
                   /\ register_a = \h00
                   /\ Flag(status, CARRY) /\ Flag(status, OVERFLOW)
                   /\ Flag(status, ZERO) /\ ~Flag(status, NEGATIVE)

C13_Witness ==
    /\ Retired({\h69})
    /\ before.cpu.register_a = \h80
    /\ MemoryOperand = \h80
    /\ before.cpu.status = \h00
    /\ register_a = \h00
    /\ status = \h43

(***************************************************************************)
(* C14.  After a load or transfer (LDA, LDX, LDY, TAX, TXA) of the byte v  *)
(* the destination register is v, Zero is set iff v = 0, Negative is set   *)
(* iff v >= 0x80, and the six other status bits are unchanged.             *)
(***************************************************************************)
C14_LoadTransfer ==
    Retired(LdaOps \cup LdxOps \cup LdyOps \cup {\hAA, \h8A}) =>
        LET v == CASE before.code = \hAA -> before.cpu.register_a
                   [] before.code = \h8A -> before.cpu.register_x
                   [] OTHER -> MemoryOperand
            destination ==
                 CASE before.code \in LdaOps \cup {\h8A} -> register_a
                   [] before.code \in LdxOps \cup {\hAA} -> register_x
                   [] OTHER -> register_y
        IN  /\ destination = v
            /\ Flag(status, ZERO) <=> v = 0
            /\ Flag(status, NEGATIVE) <=> v >= \h80
            /\ Kept({CARRY, INTERRUPT, DECIMAL, BREAK, BREAK2, OVERFLOW})

C14_Witness ==
    /\ Retired({\hAA})
    /\ before.cpu.register_a = \h80
    /\ before.cpu.status = \h7D
    /\ register_x = \h80
    /\ status = \hFD

(***************************************************************************)
(* C15.  An instruction in ZeroPage-X or ZeroPage-Y mode with base byte b  *)
(* and index i reads or writes the cell (b + i) mod 256, which lies in     *)
(* 0x0000..0x00FF, and no other: a store changes that cell only, a load    *)
(* takes its byte from it; base 0xFF with index 0x01 addresses 0x0000 and  *)
(* leaves 0x0100 alone.                                                    *)
(***************************************************************************)
C15_ZeroPageIndexed ==
    Retired({\h95, \h96, \hB5, \hB4, \hB6}) =>
        LET b == Operand(1)
            i == IF before.code \in ZeroPageXOps THEN before.cpu.register_x
                 ELSE before.cpu.register_y
            ea == (b + i) % 256
        IN  /\ ea \in \h0000..\h00FF
            /\ (b = \hFF /\ i = \h01) => ea = \h0000
            /\ before.code = \h95 =>
                  MemRead(Cpu, ea) = before.cpu.register_a /\ OnlyWritten({ea})
            /\ before.code = \h96 =>
                  MemRead(Cpu, ea) = before.cpu.register_x /\ OnlyWritten({ea})
            /\ before.code = \hB5 => register_a = MemRead(before.cpu, ea)
            /\ before.code = \hB4 => register_y = MemRead(before.cpu, ea)
            /\ before.code = \hB6 => register_x = MemRead(before.cpu, ea)

C15_Witness ==
    /\ Retired({\h95})
    /\ Operand(1) = \hFF
    /\ before.cpu.register_x = \h01
    /\ MemRead(Cpu, \h0000) = \h5A
    /\ MemRead(Cpu, \h0100) = \h00

(***************************************************************************)
(* C16.  load(program) changes no register and no memory cell other than   *)
(* origin..origin+len-1 and the reset vector 0xFFFC/0xFFFD, and reset      *)
(* changes no cell; hence the first instruction of the loaded program, a   *)
(* zero-page LDA, reads the byte its cell held before load.                *)
(***************************************************************************)
C16_LoadFrame ==
    /\ phase \in {"loaded", "reset"} =>
          /\ \A x \in (DOMAIN memory) \cup (DOMAIN before.cpu.memory) :
                \/ ORIGIN <= x /\ x < ORIGIN + Len(program)
                \/ x \in {RESET_VECTOR, RESET_VECTOR + 1}
                \/ MemRead(Cpu, x) = MemRead(before.cpu, x)
          /\ phase = "loaded" =>
                /\ register_a = before.cpu.register_a
                /\ register_x = before.cpu.register_x
                /\ register_y = before.cpu.register_y
                /\ status = before.cpu.status
                /\ stack_pointer = before.cpu.stack_pointer
                /\ program_counter = before.cpu.program_counter
    /\ (Retired({\hA5}) /\ retired = 1 /\ program # <<>>) =>
          register_a = MemRead(before.cpu, Operand(1))

(***************************************************************************)
(* C17.  INX and DEX leave index_x one above / below its old value modulo  *)
(* 256, INC and DEC leave the addressed cell one above / below its old     *)
(* byte modulo 256 and change no other cell; none of them fails, 0xFF + 1  *)
(* gives 0x00 and 0x00 - 1 gives 0xFF; Zero and Negative are those of the  *)
(* new value; LDA #$FF; TAX; INX; INX; BRK halts with index_x = 0x01.      *)
(***************************************************************************)
C17_IncDec ==
    /\ before.code \in {\hE8, \hCA} \cup IncOps \cup DecOps => phase # "failed"
    /\ Retired({\hE8, \hCA} \cup IncOps \cup DecOps) =>
          LET old == IF before.code \in {\hE8, \hCA}
                     THEN before.cpu.register_x
                     ELSE MemoryOperand
              new == IF before.code \in {\hE8, \hCA}
                     THEN register_x
                     ELSE MemRead(Cpu, OperandAddress)
              up == before.code \in {\hE8} \cup IncOps
          IN  /\ new = IF up THEN (old + 1) % 256 ELSE (old + 255) % 256
              /\ (up /\ old = \hFF) => new = \h00
              /\ (~up /\ old = \h00) => new = \hFF
              /\ Flag(status, ZERO) <=> new = 0
              /\ Flag(status, NEGATIVE) <=> new >= \h80
              /\ Kept({CARRY, INTERRUPT, DECIMAL, BREAK, BREAK2, OVERFLOW})
              /\ IF before.code \in {\hE8, \hCA}
                 THEN memory = before.cpu.memory
                 ELSE /\ OnlyWritten({OperandAddress})
                      /\ register_x = before.cpu.register_x
    /\ (phase = "halted" /\ program = InxOverflowProgram) => register_x = \h01

C17_Witness ==
    /\ phase = "halted"
    /\ program = InxOverflowProgram
    /\ before.cpu.register_x = \h01
    /\ retired = 5

(***************************************************************************)
(* C18.  After JSR at opcode address p with target T retires, the stack    *)
(* holds the word p + 2 (high byte at the old stack pointer, low byte      *)
(* below it), the stack pointer is 2 lower and the program counter is T,   *)
(* whatever T is; the RTS of the subroutine program, executed with the     *)
(* stack as its JSR left it, sets the program counter to p + 3 and         *)
(* restores the stack pointer.                                             *)
(***************************************************************************)
C18_JsrRts ==
    /\ Retired({\h20}) =>
          LET p == before.cpu.program_counter
              sp == before.cpu.stack_pointer
          IN  /\ program_counter = Operand(1) + (256 * Operand(2))
              /\ stack_pointer = (sp + 254) % 256
              /\ MemRead(Cpu, \h0100 + sp) = ((p + 2) % 65536) \div 256
              /\ MemRead(Cpu, \h0100 + ((sp + 255) % 256)) = (p + 2) % 256
    /\ (Retired({\h60}) /\ program = SubroutineProgram) =>
          /\ program_counter = ORIGIN + 3
          /\ stack_pointer = \hFD

(***************************************************************************)
(* C19.  After SBC with accumulator a, operand m and carry-in c the        *)
(* processor is as after ADC of the complement 255 - m: the accumulator    *)
(* is (a - m - (1 - c)) mod 256, Carry is set iff a >= m + (1 - c) (no     *)
(* borrow), Overflow, Zero and Negative are those of the addition; also    *)
(* for m = 0x00 and m = 0x80.                                              *)
(***************************************************************************)
C19_Sbc ==
    Retired(SbcOps) =>
        LET a == before.cpu.register_a
            m == MemoryOperand
            borrow == 1 - CarryIn
            result == (a - m - borrow + 512) % 256
        IN  /\ register_a = result
            /\ register_a = (a + (255 - m) + CarryIn) % 256
            /\ Flag(status, CARRY) <=> a >= m + borrow
            /\ Flag(status, OVERFLOW) <=>
                   (Bit7(255 - m) # Bit7(result) /\ Bit7(result) # Bit7(a))
            /\ Flag(status, ZERO) <=> result = 0
            /\ Flag(status, NEGATIVE) <=> Bit7(result)
            /\ Kept({INTERRUPT, DECIMAL, BREAK, BREAK2})
            /\ memory = before.cpu.memory

C19_Witness ==
    /\ Retired({\hE9})
    /\ before.cpu.register_a = \h00
    /\ MemoryOperand = \h80
    /\ before.cpu.status = \h01
    /\ register_a = \h80
    /\ status = \hC0

(***************************************************************************)
(* C20.  With operand byte b: an (indirect,X) instruction addresses the    *)
(* cell mem[p] + 256 * mem[(p + 1) mod 256], p = (b + index_x) mod 256,    *)
(* and an (indirect),Y instruction the cell (mem[b] + 256 * mem[(b + 1)    *)
(* mod 256] + index_y) mod 65536: a store changes that cell only, a load   *)
(* takes its byte from it.  Both pointer bytes come from the zero page,    *)
(* also when the pointer is 0xFF.                                          *)
(***************************************************************************)
C20_Indirect ==
    Retired({\h81, \h91, \hA1, \hB1}) =>
        LET b == Operand(1)
            p == (b + before.cpu.register_x) % 256
            indirect_x == MemRead(before.cpu, p)
                          + (256 * MemRead(before.cpu, (p + 1) % 256))
            indirect_y == (MemRead(before.cpu, b)
                           + (256 * MemRead(before.cpu, (b + 1) % 256))
                           + before.cpu.register_y) % 65536
            ea == IF before.code \in IndirectXOps THEN indirect_x
                  ELSE indirect_y
        IN  /\ before.code \in {\h81, \h91} =>
                  MemRead(Cpu, ea) = before.cpu.register_a /\ OnlyWritten({ea})
            /\ before.code \in {\hA1, \hB1} =>
                  register_a = MemRead(before.cpu, ea)

C20_Witness ==
    /\ Retired({\h81})
    /\ Operand(1) = \hFE
    /\ before.cpu.register_x = \h01
    /\ MemRead(before.cpu, \h00FF) = \hFC
    /\ MemRead(before.cpu, \h0000) = \h03
    /\ MemRead(before.cpu, \h0100) = \hEE
    /\ MemRead(Cpu, \h03FC) = \h5A

(***************************************************************************)
(* C21.  In a run started from a reset processor the Break and Break2      *)
(* bits are 0 in every state up to the execution of the halting BRK, and   *)
(* whatever the status was, an instruction other than BRK leaves both      *)
(* bits as they were: flag updates touch only Carry, Zero,                 *)
(* Interrupt-Disable, Decimal, Overflow and Negative.                      *)
(***************************************************************************)
C21_BreakBitsClear ==
    /\ (program # <<>> /\ phase \in {"reset", "running", "callback"}) =>
          ~Flag(status, BREAK) /\ ~Flag(status, BREAK2)
    /\ (program # <<>> /\ phase = "halted") =>
          ~Flag(before.cpu.status, BREAK) /\ ~Flag(before.cpu.status, BREAK2)
    /\ Retired(Byte \ {\h00}) => Kept({BREAK, BREAK2})

C21_Witness ==
    /\ Retired({\h24})
    /\ program = FlagProgram
    /\ MemoryOperand = \hFF
    /\ before.cpu.status = \h8D
    /\ status = \hCD

=============================================================================
